---- MODULE Spec2Model ----
(***************************************************************************)
(* Model of the Albkings Telegram bot (src/main.py): the JSON-backed user  *)
(* registry (UserDatabase), the group registry (GroupDatabase) and the     *)
(* admin command handlers built on them; and of the handlers that greet    *)
(* joining users (src/autoaccept.py, src/bot.py).                          *)
(*                                                                         *)
(* Conventions                                                             *)
(*  - A Python dict is a sequence of [key, val] entries in insertion       *)
(*    order (dicts keep insertion order; json.dump and sorted() see it).   *)
(*  - Python's None is the value None below; the Python string 'None'      *)
(*    that main.py stores for a missing name is the TLA+ string "None".    *)
(*  - time.strftime("%Y-%m-%d %H:%M:%S") gives fixed-width zero-padded     *)
(*    strings whose lexicographic order is the order of the seconds they   *)
(*    denote; a timestamp is modelled by the number of the second.         *)
(*  - A file is [exists, text]; text is the sequence of JSON tokens that   *)
(*    json.dump has written so far.  open(path, 'w') truncates, json.dump  *)
(*    then writes the tokens one after another, so a write that raises     *)
(*    partway leaves a strict prefix of the document in the file.          *)
(*  - Transport calls raise only where the code expects them to (the       *)
(*    calls it wraps in try/except); file I/O raises at most MaxFaults     *)
(*    times in a behaviour.                                                *)
(***************************************************************************)
EXTENDS Integers, Sequences, FiniteSets, TLC

VARIABLES
    now,            \* the wall clock, in seconds (time.strftime reads it)
    users,          \* UserDatabase.users: dict str(user_id) -> record
    banned_users,   \* UserDatabase.banned_users: set of int
    groups,         \* GroupDatabase.groups: dict str(group_id) -> record
    usersFile,      \* users_database.json
    bannedFile,     \* banned_users.json
    groupsFile,     \* group_statistics.json
    written,        \* per file: outcome of its latest write by this process
    faults,         \* number of file operations that have raised so far
    last,           \* the latest call: [op, id, arg, ret, write]
    sent,           \* transport calls made by the latest handler, in order
                    \* (the join handlers also enter their add_user calls,
                    \* so that their place among the sends is kept)
    threads,        \* per worker thread of the TeleBot pool: the handler it
                    \* is running and how far that handler has come
    solved_users,   \* Hellobro8.py: chat ids that answered their challenge
    all_users,      \* Hellobro8.py: chat ids that sent /start
    keyboards       \* Hellobro8.py: per chat, the callback data of the inline
                    \* buttons the bot has sent into it

vars == <<now, users, banned_users, groups, usersFile, bannedFile, groupsFile,
          written, faults, last, sent, threads, solved_users, all_users, keyboards>>

\* the private chats that talk to the bot of Hellobro8.py
CaptchaChats == {42, 43, 44}

\* the worker threads of the pool (TeleBot's default is two)
Workers == {1, 2}

Idle == [pc |-> "idle"]

\* what the handlers of main.py, bot.py and autoaccept.py, taken one at a
\* time, never touch
OthersUnchanged == UNCHANGED <<threads, solved_users, all_users, keyboards>>

----------------------------------------------------------------------------
(* Bounds of the model *)

MaxTime == 2
MaxFaults == 1
MaxCount == 2

----------------------------------------------------------------------------
(* Configuration (src/main.py:33-37) *)

\* ADMIN_ID = 7151308102 in the source; TLC integers are 32 bit, so the
\* admin's id is represented by a small number distinct from every other id.
ADMIN_ID == 7

None == "<None>"

UserIds == {ADMIN_ID, 42, 43}
GroupIds == {-1001, -1002}

\* the chats of the group listing, and the users of the statistics listing
ListGroupIds == {-1001, -1002, -1003}
ManyUserIds == 101..112

\* every id that shows up
Ids == UserIds \cup GroupIds \cup ListGroupIds \cup ManyUserIds

----------------------------------------------------------------------------
(* Python dict and str/int helpers *)

str(n) == ToString(n)

int(s) == CHOOSE n \in Ids : ToString(n) = s

Keys(d) == {d[i].key : i \in 1..Len(d)}

IndexOf(d, k) == CHOOSE i \in 1..Len(d) : d[i].key = k

Get(d, k) == d[IndexOf(d, k)].val

\* d[k] = v: an existing key keeps its position, a new key is appended
Put(d, k, v) ==
    IF k \in Keys(d)
    THEN [d EXCEPT ![IndexOf(d, k)] = [key |-> k, val |-> v]]
    ELSE Append(d, [key |-> k, val |-> v])

----------------------------------------------------------------------------
(* JSON documents as token sequences *)

LBrace == [tok |-> "{"]
RBrace == [tok |-> "}"]

Member(name, value) == [tok |-> "member", name |-> name, value |-> value]

JStr(s) == [str |-> s]
JNum(n) == [num |-> n]
JBool(b) == [bool |-> b]

\* json.dump of a dict whose values are JSON values
json_dump(d) ==
    <<LBrace>> \o [i \in 1..Len(d) |-> Member(d[i].key, d[i].val)] \o <<RBrace>>

\* json.load raises unless the text is one complete object
WellFormed(text) ==
    /\ Len(text) >= 2
    /\ text[1] = LBrace
    /\ text[Len(text)] = RBrace
    /\ \A i \in 2..(Len(text) - 1) : text[i].tok = "member"

\* json.load of a complete object: its members in the order of the text
json_load(text) ==
    [i \in 1..(Len(text) - 2) |-> [key |-> text[i + 1].name, val |-> text[i + 1].value]]

NoFile == [exists |-> FALSE, text |-> <<>>]

\* the file opened with mode 'a': the document is added after the old content
AppendFile(old, text, how, cut) ==
    CASE how = "ok" -> [exists |-> TRUE, text |-> old.text \o text]
      [] how = "open_raises" -> old
      [] how = "write_raises" -> [exists |-> TRUE, text |-> old.text \o SubSeq(text, 1, cut)]

\* with open(path, 'w') as f: json.dump(obj, f), under the try of save_*:
\* how = "ok", "open_raises" (nothing touched) or "write_raises" (the file
\* was truncated and holds the first cut tokens)
WriteFile(old, text, how, cut) ==
    CASE how = "ok" -> [exists |-> TRUE, text |-> text]
      [] how = "open_raises" -> old
      [] how = "write_raises" -> [exists |-> TRUE, text |-> SubSeq(text, 1, cut)]

Hows == {"ok", "open_raises", "write_raises"}

\* the tokens a write can have put out when it raises partway
Cuts(text, how) == IF how = "write_raises" THEN 0..(Len(text) - 1) ELSE {0}

Outcome(how) == IF how = "ok" THEN "ok" ELSE "failed"

MayFail(how) == how = "ok" \/ faults < MaxFaults

Fault(how) == IF how = "ok" THEN faults ELSE faults + 1

----------------------------------------------------------------------------
(* UserDatabase (src/main.py:133-248) *)

EncUser(u) ==
    [username |-> JStr(u.username), first_name |-> JStr(u.first_name),
     last_name |-> JStr(u.last_name), join_date |-> JStr(u.join_date)]

DecUser(j) ==
    [username |-> j.username.str, first_name |-> j.first_name.str,
     last_name |-> j.last_name.str, join_date |-> j.join_date.str]

\* json.dump(self.users, f)
DumpUsers(d) == json_dump([i \in 1..Len(d) |-> [key |-> d[i].key, val |-> EncUser(d[i].val)]])

\* a load that keeps the entries read before the text broke off
load_database_partial(file, readOk) ==
    IF file.exists /\ readOk /\ Len(file.text) >= 1 /\ file.text[1] = LBrace
    THEN LET entries == SelectSeq(file.text, LAMBDA tk : tk.tok = "member")
         IN [i \in 1..Len(entries) |->
                [key |-> entries[i].name, val |-> DecUser(entries[i].value)]]
    ELSE <<>>

\* load_database: the users a fresh object holds after loading the file
load_database(file, readOk) ==
    IF file.exists /\ readOk /\ WellFormed(file.text)
    THEN LET doc == json_load(file.text)
         IN [i \in 1..Len(doc) |-> [key |-> doc[i].key, val |-> DecUser(doc[i].val)]]
    ELSE <<>>

\* load_banned_users: banned_data.get("banned_users", []) made a set
load_banned_users(file, readOk) ==
    IF file.exists /\ readOk /\ WellFormed(file.text)
    THEN LET doc == json_load(file.text)
         IN IF "banned_users" \in Keys(doc)
            THEN {Get(doc, "banned_users").array[i].num :
                      i \in 1..Len(Get(doc, "banned_users").array)}
            ELSE {}
    ELSE {}

\* list(self.banned_users): the elements of the set in some order
Lists(S) ==
    {q \in [1..Cardinality(S) -> S] : \A i, j \in 1..Cardinality(S) : q[i] = q[j] => i = j}

\* json.dump({"banned_users": list(self.banned_users)}, f)
DumpBanned(list) ==
    <<LBrace, Member("banned_users", [array |-> [i \in 1..Len(list) |-> JNum(list[i])]]), RBrace>>

\* save_database (lines 168-175)
save_database(d, how, cut) ==
    /\ usersFile' = WriteFile(usersFile, DumpUsers(d), how, cut)
    /\ written' = [written EXCEPT !.users = Outcome(how)]
    /\ faults' = Fault(how)

\* save_banned_users (lines 177-185)
save_banned_users(S, list, how, cut) ==
    /\ list \in Lists(S)
    /\ bannedFile' = WriteFile(bannedFile, DumpBanned(list), how, cut)
    /\ written' = [written EXCEPT !.banned = Outcome(how)]
    /\ faults' = Fault(how)

\* add_user with the join date taken anew at every call
UserRecordFresh(d, user_id, username, first_name, last_name, current_time) ==
    [username |-> IF username # None /\ username # "" THEN username ELSE "None",
     first_name |-> first_name,
     last_name |-> IF last_name # None /\ last_name # "" THEN last_name ELSE "None",
     join_date |-> current_time]

\* add_user that merges: a name that is not given keeps its stored value
UserRecordMerged(d, user_id, username, first_name, last_name, current_time) ==
    LET user_id_str == str(user_id)
        is_new == user_id_str \notin Keys(d)
    IN [username |-> IF username # None /\ username # "" THEN username
                     ELSE IF is_new THEN "None" ELSE Get(d, user_id_str).username,
        first_name |-> first_name,
        last_name |-> IF last_name # None /\ last_name # "" THEN last_name
                      ELSE IF is_new THEN "None" ELSE Get(d, user_id_str).last_name,
        join_date |-> IF is_new THEN current_time ELSE Get(d, user_id_str).join_date]

\* the record add_user stores (lines 192-203)
UserRecord(d, user_id, username, first_name, last_name, current_time) ==
    LET user_id_str == str(user_id)
        is_new == user_id_str \notin Keys(d)
    IN [username |-> IF username # None /\ username # "" THEN username ELSE "None",
        first_name |-> first_name,
        last_name |-> IF last_name # None /\ last_name # "" THEN last_name ELSE "None",
        join_date |-> IF is_new THEN current_time ELSE Get(d, user_id_str).join_date]

\* add_user (lines 187-211): store the record, then save_database()
add_user(user_id, username, first_name, last_name, how) ==
    LET new == Put(users, str(user_id),
                   UserRecord(users, user_id, username, first_name, last_name, now'))
    IN /\ users' = new
       /\ \E cut \in Cuts(DumpUsers(new), how) : save_database(new, how, cut)

\* get_all_users (lines 213-215): {int(k): v}
get_all_users(d) == [i \in 1..Len(d) |-> [key |-> int(d[i].key), val |-> d[i].val]]

\* get_user_name (lines 217-226)
get_user_name(d, user_id) ==
    IF str(user_id) \in Keys(d)
    THEN LET u == Get(d, str(user_id))
         IN IF u.last_name # "" /\ u.last_name # "None"
            THEN <<u.first_name, u.last_name>>
            ELSE <<u.first_name>>
    ELSE <<"Unknown User">>

\* ban_user with the test for the admin left out
CanBanAny(d, user_id) == str(user_id) \in Keys(d)

\* the test at the head of ban_user (line 230)
CanBan(d, user_id) == ~(str(user_id) \notin Keys(d) \/ user_id = ADMIN_ID)

\* ban_user (lines 228-236); the value returned is CanBan(users, user_id)
ban_user(user_id, how) ==
    IF CanBan(users, user_id)
    THEN /\ banned_users' = banned_users \cup {user_id}
         /\ \E list \in Lists(banned_users \cup {user_id}) :
                \E cut \in Cuts(DumpBanned(list), how) :
                    save_banned_users(banned_users \cup {user_id}, list, how, cut)
    ELSE /\ how = "ok"
         /\ UNCHANGED <<banned_users, bannedFile, written, faults>>

\* is_banned (lines 238-240)
is_banned(S, user_id) == user_id \in S

----------------------------------------------------------------------------
(* GroupDatabase (src/main.py:48-131) *)

EncGroup(g) ==
    [name |-> JStr(g.name), member_count |-> JNum(g.member_count),
     is_admin |-> JBool(g.is_admin), join_date |-> JStr(g.join_date),
     last_update |-> JStr(g.last_update), messages_count |-> JNum(g.messages_count)]

DecGroup(j) ==
    [name |-> j.name.str, member_count |-> j.member_count.num,
     is_admin |-> j.is_admin.bool, join_date |-> j.join_date.str,
     last_update |-> j.last_update.str, messages_count |-> j.messages_count.num]

\* json.dump(self.groups, f)
DumpGroups(d) == json_dump([i \in 1..Len(d) |-> [key |-> d[i].key, val |-> EncGroup(d[i].val)]])

\* load_data (lines 55-66)
load_data(file, readOk) ==
    IF file.exists /\ readOk /\ WellFormed(file.text)
    THEN LET doc == json_load(file.text)
         IN [i \in 1..Len(doc) |-> [key |-> doc[i].key, val |-> DecGroup(doc[i].val)]]
    ELSE <<>>

\* save_data (lines 68-75)
save_data(d, how, cut) ==
    /\ groupsFile' = WriteFile(groupsFile, DumpGroups(d), how, cut)
    /\ written' = [written EXCEPT !.groups = Outcome(how)]
    /\ faults' = Fault(how)

\* update_group that stamps join_date at every call
GroupRecordRejoined(d, group_id, name, member_count, is_admin, current_time) ==
    [name |-> name, member_count |-> member_count, is_admin |-> is_admin,
     join_date |-> current_time,
     last_update |-> current_time,
     messages_count |-> IF str(group_id) \in Keys(d)
                        THEN Get(d, str(group_id)).messages_count ELSE 0]

\* update_group that assigns a fresh record also to a group it already has
GroupRecordReplaced(d, group_id, name, member_count, is_admin, current_time) ==
    [name |-> name, member_count |-> member_count, is_admin |-> is_admin,
     join_date |-> IF str(group_id) \in Keys(d)
                   THEN Get(d, str(group_id)).join_date ELSE current_time,
     last_update |-> current_time,
     messages_count |-> 0]

\* the record update_group stores (lines 79-106)
GroupRecord(d, group_id, name, member_count, is_admin, current_time) ==
    LET group_id_str == str(group_id)
        is_new == group_id_str \notin Keys(d)
    IN IF is_new
       THEN [name |-> name, member_count |-> member_count, is_admin |-> is_admin,
             join_date |-> current_time, last_update |-> current_time,
             messages_count |-> 0]
       ELSE [Get(d, group_id_str) EXCEPT !.name = name,
                                         !.member_count = member_count,
                                         !.is_admin = is_admin,
                                         !.last_update = current_time]

\* update_group (lines 77-108): store the record, then save_data()
update_group(group_id, name, member_count, is_admin, how) ==
    LET new == Put(groups, str(group_id),
                   GroupRecord(groups, group_id, name, member_count, is_admin, now'))
    IN /\ groups' = new
       /\ \E cut \in Cuts(DumpGroups(new), how) : save_data(new, how, cut)

\* the groups after the assignment of line 114
Incremented(d, group_id) ==
    LET g == Get(d, str(group_id))
    IN Put(d, str(group_id), [g EXCEPT !.messages_count = g.messages_count + 1])

\* increment_message_count that counts from 0 for a group it does not have
\* (a setdefault in place of the membership test)
IncrementOrCreate(group_id, how) ==
    LET new == IF str(group_id) \in Keys(groups)
               THEN Incremented(groups, group_id)
               ELSE Append(groups, [key |-> str(group_id),
                                    val |-> [name |-> "", member_count |-> 0,
                                             is_admin |-> FALSE, join_date |-> now,
                                             last_update |-> now, messages_count |-> 1]])
    IN /\ groups' = new
       /\ \E cut \in Cuts(DumpGroups(new), how) : save_data(new, how, cut)

\* increment_message_count without the save_data() of line 115
IncrementNoSave(group_id, how) ==
    IF str(group_id) \in Keys(groups)
    THEN /\ how = "ok"
         /\ groups' = Incremented(groups, group_id)
         /\ UNCHANGED <<groupsFile, written, faults>>
    ELSE /\ how = "ok"
         /\ UNCHANGED <<groups, groupsFile, written, faults>>

\* increment_message_count (lines 110-115)
increment_message_count(group_id, how) ==
    IF str(group_id) \in Keys(groups)
    THEN /\ groups' = Incremented(groups, group_id)
         /\ \E cut \in Cuts(DumpGroups(Incremented(groups, group_id)), how) :
                save_data(Incremented(groups, group_id), how, cut)
    ELSE /\ how = "ok"
         /\ UNCHANGED <<groups, groupsFile, written, faults>>

----------------------------------------------------------------------------
(* The registries as objects: their methods called in any order *)

\* (username, first_name, last_name) of the Telegram users that show up
Profiles == {<<"ana", "Ana", None>>, <<None, "Ana", "Berisha">>}

\* (name, member_count, is_admin) of the groups that show up
GroupInfos == {<<"Albkings", 5, TRUE>>, <<"Albkings", 9, FALSE>>}

\* the clock when a call reads it: time passes between calls
Clock(t) == t \in now..(IF now < MaxTime THEN now + 1 ELSE now) /\ now' = t

Times == 0..MaxTime

NotWritten == [users |-> "none", banned |-> "none", groups |-> "none"]

Init ==
    /\ now = 0
    /\ users = <<>>
    /\ banned_users = {}
    /\ groups = <<>>
    /\ usersFile = NoFile
    /\ bannedFile = NoFile
    /\ groupsFile = NoFile
    /\ written = NotWritten
    /\ faults = 0
    /\ last = [op |-> "init", id |-> 0, arg |-> <<>>, ret |-> "None", write |-> "none"]
    /\ sent = <<>>
    /\ threads = [w \in Workers |-> Idle]
    /\ solved_users = {}
    /\ all_users = {}
    /\ keyboards = [chat_id \in CaptchaChats |-> {}]

CallAddUser(user_id, p, t, how) ==
    /\ MayFail(how)
    /\ Clock(t)
    /\ add_user(user_id, p[1], p[2], p[3], how)
    /\ OthersUnchanged
    /\ last' = [op |-> "add_user", id |-> user_id, arg |-> p, ret |-> "None", write |-> how]
    /\ sent' = <<>>
    /\ UNCHANGED <<banned_users, groups, bannedFile, groupsFile>>

CallBanUser(user_id, how) ==
    /\ MayFail(how)
    /\ ban_user(user_id, how)
    /\ OthersUnchanged
    /\ last' = [op |-> "ban_user", id |-> user_id, arg |-> <<>>,
                ret |-> IF CanBan(users, user_id) THEN "True" ELSE "False",
                write |-> IF CanBan(users, user_id) THEN how ELSE "none"]
    /\ sent' = <<>>
    /\ UNCHANGED <<now, users, groups, usersFile, groupsFile>>

CallUpdateGroup(group_id, g, t, how) ==
    /\ MayFail(how)
    /\ Clock(t)
    /\ update_group(group_id, g[1], g[2], g[3], how)
    /\ OthersUnchanged
    /\ last' = [op |-> "update_group", id |-> group_id, arg |-> g, ret |-> "None", write |-> how]
    /\ sent' = <<>>
    /\ UNCHANGED <<users, banned_users, usersFile, bannedFile>>

CallIncrement(group_id, how) ==
    /\ MayFail(how)
    /\ str(group_id) \in Keys(groups) => Get(groups, str(group_id)).messages_count < MaxCount
    /\ increment_message_count(group_id, how)
    /\ OthersUnchanged
    /\ last' = [op |-> "increment_message_count", id |-> group_id, arg |-> <<>>,
                ret |-> "None",
                write |-> IF str(group_id) \in Keys(groups) THEN how ELSE "none"]
    /\ sent' = <<>>
    /\ UNCHANGED <<now, users, banned_users, usersFile, bannedFile>>

\* the process is started again: UserDatabase(DATABASE_FILE) and
\* GroupDatabase(GROUPS_FILE) are constructed anew (lines 250-252); at most
\* one of the three reads raises
Restart(unread) ==
    /\ unread # "none" => faults < MaxFaults
    /\ users' = load_database(usersFile, unread # "users")
    /\ banned_users' = load_banned_users(bannedFile, unread # "banned")
    /\ groups' = load_data(groupsFile, unread # "groups")
    /\ written' = NotWritten
    /\ faults' = IF unread = "none" THEN faults ELSE faults + 1
    /\ OthersUnchanged
    /\ last' = [op |-> "restart", id |-> 0, arg |-> <<>>, ret |-> "None", write |-> unread]
    /\ sent' = <<>>
    /\ UNCHANGED <<now, usersFile, bannedFile, groupsFile>>

----------------------------------------------------------------------------
(* Command handlers (src/main.py:255-548) *)

\* is_admin that lets every caller through
is_admin_anyone(user_id) == TRUE

\* is_admin(user_id): user_id == ADMIN_ID
is_admin(user_id) == user_id = ADMIN_ID

\* an ascending sort read backwards (sorted(...)[::-1]): descending by key,
\* but items with equal keys come out in the reverse of the order they had
SortedDescReversed(items, keys) ==
    LET n == Len(items)
        Before(i, j) == keys[i] > keys[j] \/ (keys[i] = keys[j] /\ i > j)
        Rank(i) == Cardinality({j \in 1..n : Before(j, i)}) + 1
    IN [r \in 1..n |-> items[CHOOSE i \in 1..n : Rank(i) = r]]

\* sorted(items, key=..., reverse=True), keys[i] being the key of items[i]:
\* descending by key, and items with equal keys stay in the order they had
\* (Python's sort is stable)
SortedDesc(items, keys) ==
    LET n == Len(items)
        Before(i, j) == keys[i] > keys[j] \/ (keys[i] = keys[j] /\ i < j)
        Rank(i) == Cardinality({j \in 1..n : Before(j, i)}) + 1
    IN [r \in 1..n |-> items[CHOOSE i \in 1..n : Rank(i) = r]]

\* items[-k:]: the last k items
TakeLast(items, k) ==
    SubSeq(items, IF Len(items) < k THEN 1 ELSE Len(items) - k + 1, Len(items))

\* items[:k]
Take(items, k) == SubSeq(items, 1, IF Len(items) < k THEN Len(items) ELSE k)

\* [:10] of handle_statistics (line 384)
MaxRecent == 10

\* get_admin_groups (lines 117-127)
get_admin_groups(d) ==
    LET admin_groups ==
            SelectSeq([i \in 1..Len(d) |->
                           [id |-> int(d[i].key), name |-> d[i].val.name,
                            member_count |-> d[i].val.member_count,
                            is_admin |-> d[i].val.is_admin,
                            join_date |-> d[i].val.join_date,
                            last_update |-> d[i].val.last_update,
                            messages_count |-> d[i].val.messages_count]],
                      LAMBDA g : g.is_admin)
    IN SortedDesc(admin_groups,
                  [i \in 1..Len(admin_groups) |-> admin_groups[i].member_count])

\* a transport call: bot.reply_to / bot.send_message to a chat
Reply(to, kind) == [to |-> to, kind |-> kind, raised |-> FALSE]

Send(to, kind, raised) == [to |-> to, kind |-> kind, raised |-> raised]

Called(op, caller, arg, ret, write) ==
    /\ last' = [op |-> op, id |-> caller, arg |-> arg, ret |-> ret, write |-> write]
    /\ OthersUnchanged

StoreUnchanged ==
    UNCHANGED <<users, banned_users, groups, usersFile, bannedFile, groupsFile,
                written, faults>>

\* handle_start with a save_database that lets the error of a failed write
\* through: add_user has stored the record, the greeting is never sent
handle_start_raising(user_id, p, t, how) ==
    /\ MayFail(how)
    /\ Clock(t)
    /\ add_user(user_id, p[1], p[2], p[3], how)
    /\ sent' = IF how = "ok" THEN <<Reply(user_id, "greeting")>> ELSE <<>>
    /\ Called("start", user_id, p, IF how = "ok" THEN "done" ELSE "raised", how)
    /\ UNCHANGED <<banned_users, groups, bannedFile, groupsFile>>

\* handle_start (lines 255-272)
handle_start(user_id, p, t, how) ==
    /\ MayFail(how)
    /\ Clock(t)
    /\ add_user(user_id, p[1], p[2], p[3], how)
    /\ sent' = <<Reply(user_id, "greeting")>>
    /\ Called("start", user_id, p, "done", how)
    /\ UNCHANGED <<banned_users, groups, bannedFile, groupsFile>>

\* handle_help (lines 274-302)
handle_help(user_id) ==
    /\ sent' = <<Reply(user_id, IF is_admin(user_id) THEN "help_admin" ELSE "help_user")>>
    /\ Called("help", user_id, <<>>, "done", "none")
    /\ UNCHANGED now
    /\ StoreUnchanged

\* the loop with the try/except around it instead of in it: the first send
\* that raises ends it
DeliveriesUntilFailure(recipients, kind, fails) ==
    LET all == [i \in 1..Len(recipients) |->
                   Send(recipients[i].key, kind, recipients[i].key \in fails)]
        stop == IF \E i \in 1..Len(all) : all[i].raised
                THEN CHOOSE i \in 1..Len(all) :
                         all[i].raised /\ \A j \in 1..(i - 1) : ~all[j].raised
                ELSE Len(all)
    IN SubSeq(all, 1, stop)

\* the per-recipient loop of handle_broadcast and handle_share (lines
\* 334-344, 489-500): one send to each user, a send that raises is counted
\* and the loop goes on; fails is the set of chats whose send raises
Deliveries(recipients, kind, fails) ==
    [i \in 1..Len(recipients) |->
        Send(recipients[i].key, kind, recipients[i].key \in fails)]

Tally(to, kind, deliveries) ==
    [to |-> to, kind |-> kind, raised |-> FALSE,
     successful |-> Cardinality({i \in 1..Len(deliveries) : ~deliveries[i].raised}),
     failed |-> Cardinality({i \in 1..Len(deliveries) : deliveries[i].raised})]

\* the chats whose send may raise: any of the recipients
MayRaise(d) == SUBSET {int(k) : k \in Keys(d)}

\* handle_broadcast with the loop outside any try/except: the first send
\* that raises ends the handler, and the summary is never sent
handle_broadcast_unguarded(user_id, words) ==
    /\ IF ~is_admin(user_id)
       THEN /\ sent' = <<Reply(user_id, "unauthorized")>>
            /\ Called("broadcast", user_id, words, "unauthorized", "none")
       ELSE IF Tail(words) = <<>>
       THEN /\ sent' = <<Reply(user_id, "usage")>>
            /\ Called("broadcast", user_id, words, "usage", "none")
       ELSE \E fails \in MayRaise(users) :
                LET tried == DeliveriesUntilFailure(get_all_users(users), "broadcast", fails)
                    broke == \E i \in 1..Len(tried) : tried[i].raised
                IN /\ sent' = <<Reply(user_id, "starting")>> \o tried
                              \o (IF broke THEN <<>>
                                  ELSE <<Tally(user_id, "summary", tried)>>)
                   /\ Called("broadcast", user_id, words,
                             IF broke THEN "raised" ELSE "done", "none")
    /\ UNCHANGED now
    /\ StoreUnchanged

\* handle_broadcast (lines 304-352); words is message.text split at spaces
handle_broadcast(user_id, words) ==
    /\ IF ~is_admin(user_id)
       THEN /\ sent' = <<Reply(user_id, "unauthorized")>>
            /\ Called("broadcast", user_id, words, "unauthorized", "none")
       ELSE IF Tail(words) = <<>>
       THEN /\ sent' = <<Reply(user_id, "usage")>>
            /\ Called("broadcast", user_id, words, "usage", "none")
       ELSE /\ \E fails \in MayRaise(users) :
                   sent' = <<Reply(user_id, "starting")>>
                           \o Deliveries(get_all_users(users), "broadcast", fails)
                           \o <<Tally(user_id, "summary",
                                      Deliveries(get_all_users(users), "broadcast", fails))>>
            /\ Called("broadcast", user_id, words, "done", "none")
    /\ UNCHANGED now
    /\ StoreUnchanged

\* one line of the "recent users" listing (lines 386-396)
RecentLine(item) ==
    [name_display |-> <<item.val.first_name, item.val.last_name>>,
     username_display |-> IF item.val.username # "" /\ item.val.username # "None"
                          THEN item.val.username ELSE "No username",
     join_date |-> item.val.join_date]

\* the users handle_statistics lists (lines 380-384)
recent_users(d) == Take(SortedDesc(d, [i \in 1..Len(d) |-> d[i].val.join_date]), MaxRecent)

\* handle_statistics (lines 354-399)
handle_statistics(user_id) ==
    /\ IF ~is_admin(user_id)
       THEN /\ sent' = <<Reply(user_id, "unauthorized")>>
            /\ Called("statistics", user_id, <<>>, "unauthorized", "none")
       ELSE /\ sent' = <<[to |-> user_id, kind |-> "statistics", raised |-> FALSE,
                          total_users |-> Len(users),
                          banned_users |-> Cardinality(banned_users),
                          recent |-> IF Len(users) > 0
                                     THEN [i \in 1..Len(recent_users(users)) |->
                                               RecentLine(recent_users(users)[i])]
                                     ELSE <<>>]>>
            /\ Called("statistics", user_id, <<>>, "done", "none")
    /\ UNCHANGED now
    /\ StoreUnchanged

\* handle_group_statistics (lines 401-437)
handle_group_statistics(user_id) ==
    /\ IF ~is_admin(user_id)
       THEN /\ sent' = <<Reply(user_id, "unauthorized")>>
            /\ Called("grupistatistikat", user_id, <<>>, "unauthorized", "none")
       ELSE IF get_admin_groups(groups) = <<>>
       THEN /\ sent' = <<Reply(user_id, "no_groups")>>
            /\ Called("grupistatistikat", user_id, <<>>, "no_groups", "none")
       ELSE /\ sent' = <<[to |-> user_id, kind |-> "group_statistics", raised |-> FALSE,
                          listing |-> get_admin_groups(groups)]>>
            /\ Called("grupistatistikat", user_id, <<>>, "done", "none")
    /\ UNCHANGED now
    /\ StoreUnchanged

\* s.startswith(prefix), on sequences of characters
startswith(s, prefix) ==
    Len(s) >= Len(prefix) /\ SubSeq(s, 1, Len(prefix)) = prefix

\* the prefixes of line 465
UrlPrefixes ==
    {<<"h", "t", "t", "p", ":", "/", "/">>,
     <<"h", "t", "t", "p", "s", ":", "/", "/">>,
     <<"t", ".", "m", "e", "/">>}

\* message.text.split(' ', 2) (line 450): the command, the next word, and
\* the whole rest of the text, spaces included
split2(words) ==
    IF Len(words) < 3 THEN words
    ELSE <<words[1], words[2], SubSeq(words, 3, Len(words))>>

\* the validation of the url left out
ValidUrlAny(url) == TRUE

\* url.startswith(('http://', 'https://', 't.me/')) (line 465); the url is
\* the rest of the text, and no prefix holds a space, so its first word decides
ValidUrl(url) == \E prefix \in UrlPrefixes : startswith(url[1], prefix)

\* handle_share (lines 439-508)
handle_share(user_id, words) ==
    /\ IF ~is_admin(user_id)
       THEN /\ sent' = <<Reply(user_id, "unauthorized")>>
            /\ Called("share", user_id, words, "unauthorized", "none")
       ELSE IF Len(split2(words)) < 3
       THEN /\ sent' = <<Reply(user_id, "usage")>>
            /\ Called("share", user_id, words, "usage", "none")
       ELSE IF ~ValidUrl(split2(words)[3])
       THEN /\ sent' = <<Reply(user_id, "invalid_url")>>
            /\ Called("share", user_id, words, "invalid_url", "none")
       ELSE /\ \E fails \in MayRaise(users) :
                   sent' = <<[to |-> user_id, kind |-> "sharing", raised |-> FALSE,
                              button_text |-> split2(words)[2], url |-> split2(words)[3]]>>
                           \o Deliveries(get_all_users(users), "share", fails)
                           \o <<Tally(user_id, "summary",
                                      Deliveries(get_all_users(users), "share", fails))>>
            /\ Called("share", user_id, words, "done", "none")
    /\ UNCHANGED now
    /\ StoreUnchanged

\* handle_ban that tells the admin when the notice to the banned user could
\* not be delivered
ban_replied_surfacing(user_id, reply_to, ban_user_id) ==
    IF is_admin(ban_user_id)
    THEN /\ sent' = <<Reply(user_id, "cannot_ban_admin")>>
         /\ Called("ban", user_id, reply_to, "cannot_ban_admin", "none")
         /\ UNCHANGED <<banned_users, bannedFile, written, faults>>
    ELSE IF CanBan(users, ban_user_id)
    THEN \E how \in Hows, notifyRaises \in BOOLEAN :
             /\ MayFail(how)
             /\ ban_user(ban_user_id, how)
             /\ sent' = <<[to |-> user_id, kind |-> "banned", raised |-> FALSE,
                           user_name |-> get_user_name(users, ban_user_id),
                           ban_user_id |-> ban_user_id]>>
                         \o <<Send(ban_user_id, "ban_notice", notifyRaises)>>
                         \o (IF notifyRaises THEN <<Reply(user_id, "notify_failed")>>
                             ELSE <<>>)
             /\ Called("ban", user_id, reply_to, "banned", how)
    ELSE /\ ban_user(ban_user_id, "ok")
         /\ sent' = <<Reply(user_id, "ban_failed")>>
         /\ Called("ban", user_id, reply_to, "ban_failed", "none")

\* handle_ban from line 525 on: the command replies to a message of
\* ban_user_id
ban_replied(user_id, reply_to, ban_user_id) ==
    IF is_admin(ban_user_id)
    THEN /\ sent' = <<Reply(user_id, "cannot_ban_admin")>>
         /\ Called("ban", user_id, reply_to, "cannot_ban_admin", "none")
         /\ UNCHANGED <<banned_users, bannedFile, written, faults>>
    ELSE IF CanBan(users, ban_user_id)
    THEN \E how \in Hows, notifyRaises \in BOOLEAN :
             /\ MayFail(how)
             /\ ban_user(ban_user_id, how)
             /\ sent' = <<[to |-> user_id, kind |-> "banned", raised |-> FALSE,
                           user_name |-> get_user_name(users, ban_user_id),
                           ban_user_id |-> ban_user_id]>>
                         \o <<Send(ban_user_id, "ban_notice", notifyRaises)>>
             /\ Called("ban", user_id, reply_to, "banned", how)
    ELSE /\ ban_user(ban_user_id, "ok")
         /\ sent' = <<Reply(user_id, "ban_failed")>>
         /\ Called("ban", user_id, reply_to, "ban_failed", "none")

\* handle_ban without the test of line 521: a command that replies to no
\* message is taken as aimed at the user who registered last
handle_ban_unchecked(user_id, reply_to) ==
    /\ IF ~is_admin(user_id)
       THEN /\ sent' = <<Reply(user_id, "unauthorized")>>
            /\ Called("ban", user_id, reply_to, "unauthorized", "none")
            /\ UNCHANGED <<banned_users, bannedFile, written, faults>>
       ELSE ban_replied(user_id, reply_to,
                        IF reply_to # <<>> THEN reply_to[1]
                        ELSE IF users # <<>> THEN int(users[Len(users)].key)
                        ELSE user_id)
    /\ UNCHANGED <<now, users, groups, usersFile, groupsFile>>

\* handle_ban (lines 510-548); reply_to is <<>> when the command replies to
\* no message, else <<id of the author of the message replied to>>
handle_ban(user_id, reply_to) ==
    /\ IF ~is_admin(user_id)
       THEN /\ sent' = <<Reply(user_id, "unauthorized")>>
            /\ Called("ban", user_id, reply_to, "unauthorized", "none")
            /\ UNCHANGED <<banned_users, bannedFile, written, faults>>
       ELSE IF reply_to = <<>>
       THEN /\ sent' = <<Reply(user_id, "usage")>>
            /\ Called("ban", user_id, reply_to, "usage", "none")
            /\ UNCHANGED <<banned_users, bannedFile, written, faults>>
       ELSE ban_replied(user_id, reply_to, reply_to[1])
    /\ UNCHANGED <<now, users, groups, usersFile, groupsFile>>

----------------------------------------------------------------------------
(* Specifications *)

\* UserDatabase alone
Next ==
    \/ \E user_id \in {ADMIN_ID, 42}, p \in Profiles, t \in Times, how \in Hows :
           CallAddUser(user_id, p, t, how)
    \/ \E user_id \in UserIds, how \in Hows : CallBanUser(user_id, how)
    \/ \E unread \in {"none", "users", "banned"} : Restart(unread)

Spec == Init /\ [][Next]_vars

\* GroupDatabase alone
NextGroups ==
    \/ \E group_id \in {-1001}, g \in GroupInfos, t \in Times, how \in Hows :
           CallUpdateGroup(group_id, g, t, how)
    \/ \E group_id \in GroupIds, how \in Hows : CallIncrement(group_id, how)
    \/ \E unread \in {"none", "groups"} : Restart(unread)

SpecGroups == Init /\ [][NextGroups]_vars

\* UserDatabase and GroupDatabase together; every call falls in one second
NextStore ==
    \/ \E user_id \in {ADMIN_ID, 42}, how \in Hows :
           CallAddUser(user_id, <<None, "Ana", "Berisha">>, now, how)
    \/ \E user_id \in {ADMIN_ID, 42}, how \in Hows : CallBanUser(user_id, how)
    \/ \E is_admin_flag \in BOOLEAN, how \in Hows :
           CallUpdateGroup(-1001, <<"Albkings", 5, is_admin_flag>>, now, how)
    \/ \E how \in Hows : CallIncrement(-1001, how)
    \/ \E unread \in {"none", "users", "banned", "groups"} : Restart(unread)

SpecStore == Init /\ [][NextStore]_vars

\* texts of the /broadcast messages received, split at spaces
BroadcastTexts == {<<"/broadcast">>, <<"/broadcast", "Pershendetje">>}

Https == <<"h", "t", "t", "p", "s", ":", "/", "/", "t", ".", "m", "e", "/", "a">>
Ftp == <<"f", "t", "p", ":", "/", "/", "b", "a", "d">>
Join == <<"J", "o", "i", "n">>

\* texts of the /share messages received, split at spaces
ShareTexts == {<<"/share">>, <<"/share", Join>>, <<"/share", Join, Https>>,
               <<"/share", Join, Ftp>>}

\* the bot of src/main.py serving its commands; every call falls in one second
NextCmd ==
    \/ \E user_id \in UserIds, how \in Hows :
           handle_start(user_id, <<"ana", "Ana", None>>, now, how)
    \/ \E user_id \in UserIds : handle_help(user_id)
    \/ \E user_id \in UserIds, words \in BroadcastTexts : handle_broadcast(user_id, words)
    \/ \E user_id \in UserIds : handle_statistics(user_id)
    \/ \E user_id \in UserIds : handle_group_statistics(user_id)
    \/ \E user_id \in UserIds, words \in ShareTexts : handle_share(user_id, words)
    \/ \E user_id \in UserIds, reply_to \in {<<>>} \cup {<<id>> : id \in UserIds} :
           handle_ban(user_id, reply_to)

SpecCmd == Init /\ [][NextCmd]_vars

----------------------------------------------------------------------------
(* Properties *)

Registered(d, id) == str(id) \in Keys(d)

\* C1: in the life of a registry object, the first add_user call for an id
\* stores the time of that call as join_date, and no later call of any
\* method changes the join_date of a user already recorded.
C1_JoinDateIsFirstCall ==
    [][\A id \in UserIds :
          /\ (last'.op = "add_user" /\ last'.id = id /\ ~Registered(users, id))
                => Registered(users', id) /\ Get(users', str(id)).join_date = now'
          /\ (last'.op # "restart" /\ Registered(users, id))
                => /\ Registered(users', id)
                   /\ Get(users', str(id)).join_date = Get(users, str(id)).join_date]_vars

\* a later add_user call has just returned and the join date is still the
\* earlier one
C1_Witness ==
    /\ last.op = "add_user"
    /\ Registered(users, last.id)
    /\ Get(users, str(last.id)).join_date < now

\* C2: ban_user(id) returns True and adds id to the banned set exactly when
\* id is registered and is not the admin; otherwise it returns False and
\* leaves the banned set and the banned-users file as they were.
C2_BanUserContract ==
    [][last'.op = "ban_user" =>
          IF Registered(users, last'.id) /\ last'.id # ADMIN_ID
          THEN last'.ret = "True" /\ banned_users' = banned_users \cup {last'.id}
          ELSE /\ last'.ret = "False"
               /\ banned_users' = banned_users
               /\ bannedFile' = bannedFile]_vars

\* ban_user has just banned a registered user while the admin is registered too
C2_Witness ==
    /\ last.op = "ban_user"
    /\ last.ret = "True"
    /\ last.id \in banned_users
    /\ Registered(users, ADMIN_ID)

\* C3: the admin is never in the banned set.
C3_AdminNeverBanned == ~is_banned(banned_users, ADMIN_ID)

\* ban_user(ADMIN_ID) has just been called with the admin registered and
\* another user already banned
C3_Witness ==
    /\ last.op = "ban_user"
    /\ last.id = ADMIN_ID
    /\ Registered(users, ADMIN_ID)
    /\ banned_users # {}

AdminCommands == {"broadcast", "statistics", "grupistatistikat", "share", "ban"}

\* C4: an admin-only command from a caller who is not the admin has one
\* effect, the 'unauthorized' reply to the caller: nothing is sent to anyone
\* else and the registries and their files stay as they were.
C4_UnauthorizedOnlyReplies ==
    [][(last'.op \in AdminCommands /\ last'.id # ADMIN_ID) =>
          /\ sent' = <<[to |-> last'.id, kind |-> "unauthorized", raised |-> FALSE]>>
          /\ UNCHANGED <<users, banned_users, groups, usersFile, bannedFile, groupsFile>>]_vars

\* a registered user who is not the admin has just tried /ban on another
\* registered user
C4_Witness ==
    /\ last.op = "ban"
    /\ last.id = 42
    /\ last.arg = <<43>>
    /\ Registered(users, 42) /\ Registered(users, 43)
    /\ last.ret = "unauthorized"

\* the sends of a handler run that went to the users, in order
Attempts(msgs, kind) == SelectSeq(msgs, LAMBDA m : m.kind = kind)

\* C5: a broadcast by the admin with a text attempts exactly one delivery to
\* every registered user, whether or not earlier deliveries raised, and then
\* reports successful + failed = number of users, failed being the number
\* of deliveries that raised.
C5_BroadcastReachesEveryUser ==
    [][(last'.op = "broadcast" /\ last'.id = ADMIN_ID /\ Len(last'.arg) > 1) =>
          LET attempts == Attempts(sent', "broadcast")
              summary == sent'[Len(sent')]
          IN /\ \A id \in UserIds :
                    Cardinality({i \in 1..Len(attempts) : attempts[i].to = id})
                        = IF Registered(users, id) THEN 1 ELSE 0
             /\ summary.kind = "summary"
             /\ summary.successful + summary.failed = Len(users)
             /\ summary.failed
                    = Cardinality({i \in 1..Len(attempts) : attempts[i].raised})]_vars

\* a broadcast to three users of which the second raised has reported 2 and 1
C5_Witness ==
    /\ last.op = "broadcast"
    /\ last.ret = "done"
    /\ Len(users) = 3
    /\ Len(sent) = 5
    /\ ~sent[2].raised /\ sent[3].raised /\ ~sent[4].raised
    /\ sent[5].successful = 2 /\ sent[5].failed = 1

\* C6: when the latest save of a store succeeded, a fresh registry object
\* that loads the file holds what the old object held: the same users and
\* groups with the same fields, and the same banned set, so is_banned and
\* get_all_users answer as before.
C6_SaveLoadRoundTrip ==
    [][last'.op = "restart" =>
          /\ (written.users = "ok" /\ last'.write # "users")
                => /\ users' = users
                   /\ get_all_users(users') = get_all_users(users)
          /\ (written.banned = "ok" /\ last'.write # "banned")
                => /\ banned_users' = banned_users
                   /\ \A id \in UserIds :
                          is_banned(banned_users', id) = is_banned(banned_users, id)
          /\ (written.groups = "ok" /\ last'.write # "groups")
                => groups' = groups]_vars

\* a fresh object has loaded users, a banned user and a group, and no file
\* operation has ever failed
C6_Witness ==
    /\ last.op = "restart"
    /\ faults = 0
    /\ Len(users) = 2
    /\ banned_users = {42}
    /\ Len(groups) = 1
    /\ Get(groups, "-1001").messages_count > 0

\* C7: once a mutation has returned with its write succeeded, the file holds
\* the serialization of the mapping in memory, and this stays so until a
\* write fails: no method changes memory without saving.
C7_FileMirrorsMemory ==
    /\ written.users = "ok" => usersFile = [exists |-> TRUE, text |-> DumpUsers(users)]
    /\ written.groups = "ok" => groupsFile = [exists |-> TRUE, text |-> DumpGroups(groups)]
    /\ written.banned = "ok" =>
           \E list \in Lists(banned_users) :
               bannedFile = [exists |-> TRUE, text |-> DumpBanned(list)]

\* increment_message_count has just saved, after add_user and ban_user did
C7_Witness ==
    /\ last.op = "increment_message_count"
    /\ last.write = "ok"
    /\ written = [users |-> "ok", banned |-> "ok", groups |-> "ok"]

Whole(file) == ~file.exists \/ WellFormed(file.text)

\* C8: whatever fails while saving, each backing file is absent or holds one
\* complete JSON document; a truncated file is never there to be read.
C8_FileAlwaysWhole == Whole(usersFile) /\ Whole(bannedFile) /\ Whole(groupsFile)

\* C9: in the life of a registry object the messages_count of a group never
\* decreases: it is 0 when update_group first records the group, each
\* increment_message_count on a recorded group adds exactly 1, and
\* update_group on a recorded group leaves it as it is.
C9_MessagesCountMonotone ==
    [][\A id \in GroupIds :
          /\ (last'.op = "update_group" /\ last'.id = id /\ ~Registered(groups, id))
                => Get(groups', str(id)).messages_count = 0
          /\ (last'.op # "restart" /\ Registered(groups, id))
                => /\ Registered(groups', id)
                   /\ Get(groups', str(id)).messages_count
                          >= Get(groups, str(id)).messages_count
          /\ (last'.op = "increment_message_count" /\ last'.id = id /\ Registered(groups, id))
                => Get(groups', str(id)).messages_count
                       = Get(groups, str(id)).messages_count + 1
          /\ (last'.op = "update_group" /\ last'.id = id /\ Registered(groups, id))
                => Get(groups', str(id)).messages_count
                       = Get(groups, str(id)).messages_count]_vars

\* update_group has just returned for a group that had messages counted
C9_Witness ==
    /\ last.op = "update_group"
    /\ Registered(groups, last.id)
    /\ Get(groups, str(last.id)).messages_count = MaxCount
    /\ Get(groups, str(last.id)).last_update > Get(groups, str(last.id)).join_date

\* C10: increment_message_count for a group that is not recorded changes
\* nothing: no record appears, the mapping stays as it was and nothing is
\* written.
C10_IncrementUnknownIsNoOp ==
    [][(last'.op = "increment_message_count" /\ ~Registered(groups, last'.id)) =>
          /\ groups' = groups
          /\ ~Registered(groups', last'.id)
          /\ groupsFile' = groupsFile
          /\ written' = written
          /\ faults' = faults]_vars

\* increment_message_count has just been called for a group never recorded
\* while another group is recorded
C10_Witness ==
    /\ last.op = "increment_message_count"
    /\ last.id = -1002
    /\ ~Registered(groups, -1002)
    /\ Registered(groups, -1001)

\* C11: update_group on a group already recorded keeps the join_date of the
\* first call, stores the supplied name, member_count and is_admin, and sets
\* last_update to the time of the call; the first call for an id is the only
\* one that sets join_date.
C11_UpdateGroupKeepsJoinDate ==
    [][last'.op = "update_group" =>
          LET k == str(last'.id)
              g == Get(groups', k)
          IN /\ k \in Keys(groups')
             /\ g.name = last'.arg[1]
             /\ g.member_count = last'.arg[2]
             /\ g.is_admin = last'.arg[3]
             /\ g.last_update = now'
             /\ g.join_date = IF k \in Keys(groups)
                              THEN Get(groups, k).join_date ELSE now']_vars

\* an update of a group recorded at an earlier time
C11_Witness ==
    /\ last.op = "update_group"
    /\ str(last.id) \in Keys(groups)
    /\ Get(groups, str(last.id)).join_date < Get(groups, str(last.id)).last_update
    /\ Get(groups, str(last.id)).member_count = last.arg[2]

----------------------------------------------------------------------------
(* The group listing (src/main.py:117-127) over registries of several groups *)

\* (name, member_count, is_admin) the calls supply
ListGroupInfos == {<<"Albkings", 5, TRUE>>, <<"Albkings", 9, TRUE>>, <<"Albkings", 5, FALSE>>}

\* a call of get_admin_groups: it returns the list and changes nothing
CallGetAdminGroups ==
    /\ OthersUnchanged
    /\ last' = [op |-> "get_admin_groups", id |-> 0, arg |-> <<>>,
                ret |-> get_admin_groups(groups), write |-> "none"]
    /\ sent' = <<>>
    /\ UNCHANGED now
    /\ StoreUnchanged

NextList ==
    \/ \E group_id \in ListGroupIds, g \in ListGroupInfos :
           CallUpdateGroup(group_id, g, now, "ok")
    \/ CallGetAdminGroups

SpecList == Init /\ [][NextList]_vars

\* C12: get_admin_groups returns exactly the groups whose is_admin is true,
\* each once, ordered by member_count descending, and groups with equal
\* member_count in the order of their first insertion; a later update_group
\* never moves a group in that order.
C12_AdminGroupsSortedStable ==
    [][/\ last'.op = "get_admin_groups" =>
              LET r == last'.ret
                  Pos(g) == IndexOf(groups', str(g.id))
              IN /\ {g.id : g \in {r[i] : i \in 1..Len(r)}}
                        = {int(groups'[i].key) : i \in {j \in 1..Len(groups') : groups'[j].val.is_admin}}
                 /\ \A i, j \in 1..Len(r) : i < j =>
                        /\ r[i].id # r[j].id
                        /\ r[i].member_count >= r[j].member_count
                        /\ r[i].member_count = r[j].member_count => Pos(r[i]) < Pos(r[j])
                 /\ \A i \in 1..Len(r) :
                        r[i].member_count = Get(groups', str(r[i].id)).member_count
       /\ last'.op = "update_group" =>
              \A i \in 1..Len(groups) : groups'[i].key = groups[i].key]_vars

\* a listing of three admin groups where the two with equal member_count
\* were inserted before the larger one
C12_Witness ==
    /\ last.op = "get_admin_groups"
    /\ Len(last.ret) = 3
    /\ last.ret[1].member_count > last.ret[2].member_count
    /\ last.ret[2].member_count = last.ret[3].member_count
    /\ Len(groups) = 3
    /\ str(last.ret[1].id) = groups[3].key

----------------------------------------------------------------------------
(* The statistics listing (src/main.py:354-399) over a registry of many users *)

\* the profile of a user who starts the bot: no handle, a first name of their
\* own, no last name
ProfileOf(user_id) == <<None, "U" \o str(user_id), None>>

\* users start the bot one after the other while time passes, and the admin
\* asks for the statistics
NextStats ==
    \/ \E user_id \in ManyUserIds, t \in Times :
           /\ user_id = 101 + Len(users)
           /\ handle_start(user_id, ProfileOf(user_id), t, "ok")
    \/ handle_statistics(ADMIN_ID)

SpecStats == Init /\ [][NextStats]_vars

\* the position in the registry of the user a line of the listing shows
Listed(line) == CHOOSE i \in 1..Len(users) : RecentLine(users[i]) = line

\* C13: the statistics report gives the number of registered users and lists
\* min(n, 10) of them, each once: those with the latest join_date, the most
\* recent first and users with the same join_date in insertion order; a
\* user left out joined no later than every listed one.
C13_StatisticsListsTenMostRecent ==
    (last.op = "statistics" /\ last.ret = "done") =>
        LET msg == sent[1]
            lines == msg.recent
            n == Len(users)
            shown == {Listed(lines[a]) : a \in 1..Len(lines)}
        IN /\ Len(sent) = 1
           /\ msg.total_users = n
           /\ Len(lines) = IF n < 10 THEN n ELSE 10
           /\ \A a \in 1..Len(lines) : \E i \in 1..n : RecentLine(users[i]) = lines[a]
           /\ Cardinality(shown) = Len(lines)
           /\ \A a, b \in 1..Len(lines) : a < b =>
                  \/ lines[a].join_date > lines[b].join_date
                  \/ /\ lines[a].join_date = lines[b].join_date
                     /\ Listed(lines[a]) < Listed(lines[b])
           /\ \A i \in (1..n) \ shown : \A a \in 1..Len(lines) :
                  \/ users[i].val.join_date < lines[a].join_date
                  \/ /\ users[i].val.join_date = lines[a].join_date
                     /\ Listed(lines[a]) < i

\* the report for 12 users who joined at three different times: 10 lines
C13_Witness ==
    /\ last.op = "statistics"
    /\ last.ret = "done"
    /\ Len(users) = 12
    /\ sent[1].total_users = 12
    /\ Len(sent[1].recent) = 10
    /\ users[1].val.join_date < users[3].val.join_date
    /\ users[3].val.join_date < users[12].val.join_date

\* the word begins with none of 'http://', 'https://', 't.me/'
NoKnownPrefix(word) ==
    \A prefix \in UrlPrefixes :
        \/ Len(word) < Len(prefix)
        \/ \E i \in 1..Len(prefix) : word[i] # prefix[i]

\* C14: a /share of the admin whose url begins with none of the three
\* prefixes gets the validation-error reply and nothing else: no message to
\* any user, no tally, and the registries and files as they were.
C14_ShareInvalidUrlOnlyReplies ==
    [][(/\ last'.op = "share"
        /\ last'.id = ADMIN_ID
        /\ Len(last'.arg) >= 3
        /\ NoKnownPrefix(last'.arg[3]))
       => /\ sent' = <<Reply(ADMIN_ID, "invalid_url")>>
          /\ last'.ret = "invalid_url"
          /\ StoreUnchanged]_vars

\* the share of 'Join' with ftp://bad while users are registered
C14_Witness ==
    /\ last.op = "share"
    /\ last.id = ADMIN_ID
    /\ last.arg = <<"/share", Join, Ftp>>
    /\ last.ret = "invalid_url"
    /\ Len(users) >= 2

\* C15: a /ban of the admin that replies to no message gets the usage reply
\* and nothing else: the registry, the banned set and both files stay as
\* they were and no user is notified.
C15_BanWithoutReplyOnlyReplies ==
    [][(last'.op = "ban" /\ last'.id = ADMIN_ID /\ last'.arg = <<>>) =>
          /\ sent' = <<Reply(ADMIN_ID, "usage")>>
          /\ last'.ret = "usage"
          /\ UNCHANGED <<users, banned_users, usersFile, bannedFile>>]_vars

\* the admin's /ban that replies to nothing, with an unbanned user registered
C15_Witness ==
    /\ last.op = "ban"
    /\ last.id = ADMIN_ID
    /\ last.arg = <<>>
    /\ last.ret = "usage"
    /\ Registered(users, 42)
    /\ banned_users = {}

----------------------------------------------------------------------------
(* Join handling: src/autoaccept.py:37-134 and src/bot.py:27-113, 316-337 *)

\* json.dump of None
JNull == [null |-> TRUE]

\* the record Database.add_user stores (src/bot.py:73-85): the names as
\* given, None included
BotUserRecord(d, user_id, username, first_name, last_name, current_time) ==
    LET str_user_id == str(user_id)
        is_new_user == str_user_id \notin Keys(d)
    IN [user_id |-> user_id,
        username |-> username,
        first_name |-> first_name,
        last_name |-> last_name,
        join_date |-> IF is_new_user THEN current_time
                      ELSE Get(d, str_user_id).join_date]

EncBotUser(u) ==
    [user_id |-> JNum(u.user_id),
     username |-> IF u.username = None THEN JNull ELSE JStr(u.username),
     first_name |-> JStr(u.first_name),
     last_name |-> IF u.last_name = None THEN JNull ELSE JStr(u.last_name),
     join_date |-> JStr(u.join_date)]

\* json.dump(self.users, file) of src/bot.py:53
DumpBotUsers(d) ==
    json_dump([i \in 1..Len(d) |-> [key |-> d[i].key, val |-> EncBotUser(d[i].val)]])

\* the registry, its file and the calls made so far, while a handler runs
Running ==
    [users |-> users, file |-> usersFile, written |-> written, faults |-> faults,
     sent |-> <<>>]

\* Database.add_user (src/bot.py:58-93) followed by save_data (49-56); o is
\* how the write goes
Database_add_user(st, m, current_time, o) ==
    LET new == Put(st.users, str(m.id),
                   BotUserRecord(st.users, m.id, m.username, m.first_name,
                                 m.last_name, current_time))
        text == DumpBotUsers(new)
        cut == IF o.cut < Len(text) THEN o.cut ELSE Len(text) - 1
    IN [st EXCEPT !.users = new,
                  !.file = WriteFile(st.file, text, o.how, cut),
                  !.written = [st.written EXCEPT !.users = Outcome(o.how)],
                  !.faults = IF o.how = "ok" THEN st.faults ELSE st.faults + 1,
                  !.sent = Append(st.sent, [to |-> m.id, kind |-> "add_user",
                                            raised |-> FALSE])]

\* the try/except of src/bot.py:330-337: the private welcome; when it raises
\* the error is logged and nothing more is sent
PrivateWelcome(st, m, o) ==
    [st EXCEPT !.sent = Append(st.sent, Send(m.id, "welcome", o.raised))]

\* the loop of welcome_new_members (src/bot.py:319-337)
RECURSIVE WelcomeLoop(_, _, _, _)
WelcomeLoop(st, members, current_time, outcomes) ==
    IF members = <<>> THEN st
    ELSE LET m == Head(members)
             o == Head(outcomes)
         IN IF m.is_bot
            THEN WelcomeLoop(st, Tail(members), current_time, Tail(outcomes))
            ELSE WelcomeLoop(PrivateWelcome(Database_add_user(st, m, current_time, o), m, o),
                             Tail(members), current_time, Tail(outcomes))

\* a user of message.new_chat_members
NewMember(id, is_bot) ==
    [id |-> id, is_bot |-> is_bot, username |-> None, first_name |-> "Ana",
     last_name |-> None]

\* the new_chat_members lists received
NewMembers ==
    {<<NewMember(42, FALSE)>>, <<NewMember(43, TRUE)>>,
     <<NewMember(43, TRUE), NewMember(42, FALSE)>>,
     <<NewMember(42, FALSE), NewMember(43, FALSE)>>}

\* how the save and the private welcome for one member go
Smooth == [how |-> "ok", cut |-> 0, raised |-> FALSE]

WelcomeOutcomes ==
    {o \in [how : Hows, cut : 0..2, raised : BOOLEAN] :
        o.how # "write_raises" => o.cut = 0}

\* welcome_new_members (src/bot.py:316-337; welcome_new_member of
\* src/main_new.py:206-226 is the same loop)
welcome_new_members(members, t) ==
    /\ Clock(t)
    /\ \E outcomes \in [1..Len(members) -> WelcomeOutcomes] :
           /\ \A i \in 1..Len(members) : members[i].is_bot => outcomes[i] = Smooth
           /\ LET st == WelcomeLoop(Running, members, t, outcomes)
              IN /\ st.faults <= MaxFaults
                 /\ users' = st.users
                 /\ usersFile' = st.file
                 /\ written' = st.written
                 /\ faults' = st.faults
                 /\ sent' = st.sent
    /\ Called("new_chat_members", 0, members, "done", "none")
    /\ UNCHANGED <<banned_users, groups, bannedFile, groupsFile>>

\* what may raise while a join request is handled
JoinCalls == {"approve", "welcome", "group_welcome", "admin"}

\* handle_join_request that greets first: the private welcome goes out
\* before the request is approved, whatever becomes of the approval
handle_join_request_eager(user_id, chat_id, raises) ==
    /\ sent' =
          <<Send(user_id, "welcome", "welcome" \in raises),
            [to |-> chat_id, kind |-> "approve", raised |-> "approve" \in raises,
             user |-> user_id],
            Send(ADMIN_ID, IF "approve" \in raises THEN "join_error" ELSE "join_approved",
                 "admin" \in raises)>>
    /\ Called("join_request", user_id, <<chat_id>>,
              IF "approve" \in raises THEN "error" ELSE "approved", "none")
    /\ UNCHANGED now
    /\ StoreUnchanged

\* handle_join_request without the try/except of lines 57-81 around the
\* welcomes: a private welcome that raises ends in the outer handler, which
\* reports an error to the admin
handle_join_request_unguarded(user_id, chat_id, raises) ==
    /\ sent' =
          IF "approve" \in raises
          THEN <<[to |-> chat_id, kind |-> "approve", raised |-> TRUE, user |-> user_id],
                 Send(ADMIN_ID, "join_error", "admin" \in raises)>>
          ELSE <<[to |-> chat_id, kind |-> "approve", raised |-> FALSE, user |-> user_id],
                 Send(user_id, "welcome", "welcome" \in raises),
                 Send(ADMIN_ID,
                      IF "welcome" \in raises THEN "join_error" ELSE "join_approved",
                      "admin" \in raises)>>
    /\ Called("join_request", user_id, <<chat_id>>,
              IF "approve" \in raises THEN "error" ELSE "approved", "none")
    /\ UNCHANGED now
    /\ StoreUnchanged

\* handle_join_request (src/autoaccept.py:37-134): approve, welcome the user
\* privately or else in the group, tell the admin; autoaccept.py keeps no
\* registry
handle_join_request(user_id, chat_id, raises) ==
    /\ sent' =
          IF "approve" \in raises
          THEN <<[to |-> chat_id, kind |-> "approve", raised |-> TRUE, user |-> user_id],
                 Send(ADMIN_ID, "join_error", "admin" \in raises)>>
          ELSE <<[to |-> chat_id, kind |-> "approve", raised |-> FALSE, user |-> user_id],
                 Send(user_id, "welcome", "welcome" \in raises)>>
               \o (IF "welcome" \in raises
                   THEN <<[to |-> chat_id, kind |-> "group_welcome",
                           raised |-> "group_welcome" \in raises, user |-> user_id]>>
                   ELSE <<>>)
               \o <<Send(ADMIN_ID, "join_approved", "admin" \in raises)>>
    /\ Called("join_request", user_id, <<chat_id>>,
              IF "approve" \in raises THEN "error" ELSE "approved", "none")
    /\ UNCHANGED now
    /\ StoreUnchanged

\* the bot greeting the users who join: requests to join and lists of new
\* members, in any order
NextJoin ==
    \/ \E members \in NewMembers, t \in Times : welcome_new_members(members, t)
    \/ \E user_id \in {42, 43}, raises \in SUBSET JoinCalls :
           handle_join_request(user_id, -1001, raises)

SpecJoin == Init /\ [][NextJoin]_vars

JoinOps == {"join_request", "new_chat_members"}

\* C16: when a join of a user who is no bot has been handled, the user is in
\* the registry, and every private welcome was attempted after the add_user
\* call for that user.
C16_JoinUpsertsBeforeWelcome ==
    last.op \in JoinOps =>
        /\ (last.op = "join_request" /\ last.ret = "approved") => Registered(users, last.id)
        /\ last.op = "new_chat_members" =>
               \A k \in 1..Len(last.arg) :
                   ~last.arg[k].is_bot => Registered(users, last.arg[k].id)
        /\ \A i \in 1..Len(sent) :
               sent[i].kind = "welcome" =>
                   \E j \in 1..(i - 1) :
                       sent[j].kind = "add_user" /\ sent[j].to = sent[i].to

\* C17: when a join has been handled, a welcome in the group naming the user
\* was attempted exactly for the private welcomes that raised, right after
\* them; that the handler returns whatever raised is the shape of the model's
\* actions (every send is under a try/except).
C17_GroupWelcomeIffPrivateFailed ==
    last.op \in JoinOps =>
        /\ \A i \in 1..Len(sent) :
               sent[i].kind = "welcome" =>
                   (sent[i].raised <=>
                        /\ i < Len(sent)
                        /\ sent[i + 1].kind = "group_welcome"
                        /\ sent[i + 1].user = sent[i].to)
        /\ \A i \in 1..Len(sent) :
               sent[i].kind = "group_welcome" =>
                   /\ i > 1
                   /\ sent[i - 1].kind = "welcome"
                   /\ sent[i - 1].raised

\* one user and one group upserted again and again while time passes, every
\* save succeeding
NextUpsert ==
    \/ \E p \in Profiles, t \in Times : CallAddUser(42, p, t, "ok")
    \/ \E g \in GroupInfos, t \in Times : CallUpdateGroup(-1001, g, t, "ok")
    \/ CallIncrement(-1001, "ok")

SpecUpsert == Init /\ [][NextUpsert]_vars

\* the handle or name add_user stores for a supplied one: 'None' stands for
\* a missing (null) one in the users file
Stored(name) == IF name = None THEN "None" ELSE name

\* C18: an upsert of an existing record keeps what the call does not supply:
\* add_user without a last_name keeps the stored last_name, and update_group
\* keeps join_date and messages_count.
C18_UpsertPreservesUnsupplied ==
    [][/\ (last'.op = "add_user" /\ Registered(users, last'.id) /\ last'.arg[3] = None) =>
              Get(users', str(last'.id)).last_name = Get(users, str(last'.id)).last_name
       /\ (last'.op = "update_group" /\ Registered(groups, last'.id)) =>
              /\ Get(groups', str(last'.id)).join_date = Get(groups, str(last'.id)).join_date
              /\ Get(groups', str(last'.id)).messages_count
                     = Get(groups, str(last'.id)).messages_count]_vars

\* C18 as amended: an upsert of an existing record keeps the fields the call
\* has no parameter for: add_user keeps join_date and stores the handle and
\* names of the call (a last_name that is not given is stored as 'None', the
\* stored one is not kept), and update_group keeps join_date and
\* messages_count.
C18_UpsertKeepsJoinDateAndCount ==
    [][/\ (last'.op = "add_user" /\ Registered(users, last'.id)) =>
              /\ Get(users', str(last'.id)).join_date = Get(users, str(last'.id)).join_date
              /\ Get(users', str(last'.id)).username = Stored(last'.arg[1])
              /\ Get(users', str(last'.id)).last_name = Stored(last'.arg[3])
       /\ (last'.op = "update_group" /\ Registered(groups, last'.id)) =>
              /\ Get(groups', str(last'.id)).join_date = Get(groups, str(last'.id)).join_date
              /\ Get(groups', str(last'.id)).messages_count
                     = Get(groups, str(last'.id)).messages_count]_vars

\* user 42, recorded earlier, after an add_user without a last_name, and
\* the group, recorded earlier and counted, after an update
C18_Witness ==
    /\ last.op = "add_user"
    /\ last.id = 42
    /\ last.arg[3] = None
    /\ Get(users, "42").last_name = "None"
    /\ Get(users, "42").join_date < now
    /\ Registered(groups, -1001)
    /\ Get(groups, "-1001").messages_count > 0
    /\ Get(groups, "-1001").join_date < Get(groups, "-1001").last_update

\* C19: after an add_user call the one record of the id holds the handle and
\* the names of that call, a missing handle included (stored as 'None'),
\* and for an id already recorded the join_date it had.
C19_LatestNamesReplaceStored ==
    [][last'.op = "add_user" =>
          LET k == str(last'.id)
              u == Get(users', k)
          IN /\ Cardinality({i \in 1..Len(users') : users'[i].key = k}) = 1
             /\ u.username = Stored(last'.arg[1])
             /\ u.first_name = last'.arg[2]
             /\ u.last_name = Stored(last'.arg[3])
             /\ Registered(users, last'.id) => u.join_date = Get(users, k).join_date]_vars

\* user 42, recorded earlier, after add_user(42, None, "Ana", "Berisha")
C19_Witness ==
    /\ last.op = "add_user"
    /\ last.id = 42
    /\ last.arg = <<None, "Ana", "Berisha">>
    /\ Get(users, "42").username = "None"
    /\ Get(users, "42").last_name = "Berisha"
    /\ Get(users, "42").join_date < now

----------------------------------------------------------------------------
(* Saves that fail under the handlers and the group registry *)

\* users start the bot, the admin bans them, groups are recorded and
\* counted, and any of the saves may fail; every call falls in one second
NextSoft ==
    \/ \E user_id \in {ADMIN_ID, 42}, how \in Hows :
           handle_start(user_id, <<"ana", "Ana", None>>, now, how)
    \/ \E reply_to \in {<<42>>, <<43>>} : handle_ban(ADMIN_ID, reply_to)
    \/ \E g \in GroupInfos, how \in Hows : CallUpdateGroup(-1001, g, now, how)
    \/ \E how \in Hows : CallIncrement(-1001, how)

SpecSoft == Init /\ [][NextSoft]_vars

Failed(write) == write \in {"open_raises", "write_raises"}

\* C20: a save whose file write fails raises nothing to its caller: the call
\* returns as usual, the change it made in memory stays, and the handler
\* that made the call sends its reply.
C20_SaveFailureNeverPropagates ==
    [][Failed(last'.write) =>
          /\ last'.op = "start" =>
                 /\ Registered(users', last'.id)
                 /\ Get(users', str(last'.id)).first_name = last'.arg[2]
                 /\ sent' = <<Reply(last'.id, "greeting")>>
                 /\ last'.ret = "done"
          /\ last'.op = "ban" =>
                 /\ banned_users' = banned_users \cup {last'.arg[1]}
                 /\ Len(sent') = 2
                 /\ sent'[1].to = last'.id /\ sent'[1].kind = "banned"
                 /\ sent'[2].to = last'.arg[1] /\ sent'[2].kind = "ban_notice"
                 /\ last'.ret = "banned"
          /\ last'.op = "update_group" =>
                 /\ Registered(groups', last'.id)
                 /\ Get(groups', str(last'.id)).member_count = last'.arg[2]
                 /\ Get(groups', str(last'.id)).is_admin = last'.arg[3]
                 /\ last'.ret = "None"
          /\ last'.op = "increment_message_count" =>
                 /\ Get(groups', str(last'.id)).messages_count
                        = Get(groups, str(last'.id)).messages_count + 1
                 /\ last'.ret = "None"]_vars

\* a /start whose save broke off partway: the user is recorded, the greeting
\* sent, the file left incomplete
C20_Witness ==
    /\ last.op = "start"
    /\ last.id = 42
    /\ last.write = "write_raises"
    /\ written.users = "failed"
    /\ Registered(users, 42)
    /\ sent = <<Reply(42, "greeting")>>
    /\ ~WellFormed(usersFile.text)

\* the file cannot be loaded: it is absent, the read raises, or its text is
\* no complete JSON document
Unloadable(file, unread) == ~file.exists \/ unread \/ ~WellFormed(file.text)

\* C21: a start of the process raises nothing and leaves each registry
\* empty when its file is absent, unreadable or no valid JSON, and equal to
\* the content of the file otherwise.
C21_LoadFailsSoft ==
    [][last'.op = "restart" =>
          /\ IF Unloadable(usersFile, last'.write = "users")
             THEN users' = <<>>
             ELSE DumpUsers(users') = usersFile.text
          /\ IF Unloadable(bannedFile, last'.write = "banned")
             THEN banned_users' = {}
             ELSE \E list \in Lists(banned_users') : DumpBanned(list) = bannedFile.text
          /\ IF Unloadable(groupsFile, last'.write = "groups")
             THEN groups' = <<>>
             ELSE DumpGroups(groups') = groupsFile.text
          /\ last'.ret = "None"]_vars

\* a start that found the users file broken off and the groups file whole
C21_Witness ==
    /\ last.op = "restart"
    /\ last.write = "none"
    /\ usersFile.exists /\ usersFile.text # <<>> /\ ~WellFormed(usersFile.text)
    /\ users = <<>>
    /\ groupsFile.exists /\ groups # <<>>
    /\ ~bannedFile.exists

----------------------------------------------------------------------------
(* The batch commands of the admin over a registry of up to three users *)

NextBatch ==
    \/ \E user_id \in UserIds : handle_start(user_id, <<"ana", "Ana", None>>, now, "ok")
    \/ \E words \in BroadcastTexts : handle_broadcast(ADMIN_ID, words)
    \/ \E words \in ShareTexts : handle_share(ADMIN_ID, words)

SpecBatch == Init /\ [][NextBatch]_vars

\* the command is a /broadcast with a text, or a /share with a button text
\* and a url that has one of the three prefixes
BatchAccepted(op, words) ==
    \/ op = "broadcast" /\ Len(words) >= 2
    \/ op = "share" /\ Len(words) >= 3 /\ ~NoKnownPrefix(words[3])

\* C22: a /broadcast or /share of the admin that passes the argument checks
\* ends with the tally sent to the admin, whichever of the deliveries to the
\* users raised, all of them included; the tally counts every delivery.
C22_TallyAlwaysSent ==
    [][(last'.op \in {"broadcast", "share"} /\ last'.id = ADMIN_ID
            /\ BatchAccepted(last'.op, last'.arg)) =>
          LET tally == sent'[Len(sent')]
          IN /\ Len(sent') = Len(users) + 2
             /\ tally.kind = "summary"
             /\ tally.to = ADMIN_ID
             /\ ~tally.raised
             /\ tally.failed = Cardinality({i \in 1..Len(sent') : sent'[i].raised})
             /\ tally.successful + tally.failed = Len(users)]_vars

\* a share to three users where every delivery raised
C22_Witness ==
    /\ last.op = "share"
    /\ last.id = ADMIN_ID
    /\ Len(users) = 3
    /\ Len(sent) = 5
    /\ sent[5].kind = "summary"
    /\ sent[5].failed = 3
    /\ sent[5].successful = 0

\* the admin's /ban replies to a message of a registered user who is not
\* the admin (in the state before the command)
BanOfRegistered ==
    /\ last'.op = "ban"
    /\ last'.id = ADMIN_ID
    /\ last'.arg # <<>>
    /\ last'.arg[1] # ADMIN_ID
    /\ Registered(users, last'.arg[1])

\* what the handler sent: the success reply to the admin, then the notice to
\* the banned user, delivered or not, and nothing more
BanReplies ==
    /\ Len(sent') = 2
    /\ sent'[1].to = ADMIN_ID /\ sent'[1].kind = "banned" /\ ~sent'[1].raised
    /\ sent'[2].to = last'.arg[1] /\ sent'[2].kind = "ban_notice"

\* C23: when the admin's /ban replies to a message of a registered user who
\* is not the admin, the user is in the banned set and in the banned-users
\* file when the success reply is sent, the notice to the user is attempted
\* next, and a notice that fails changes nothing of that and brings no
\* further reply.
C23_BanPersistedBeforeReply ==
    [][BanOfRegistered =>
          /\ last'.arg[1] \in banned_users'
          /\ last'.arg[1] \in load_banned_users(bannedFile', TRUE)
          /\ BanReplies]_vars

\* C23 as amended: the user is in the banned set, and in the banned-users
\* file if the write of the file did not fail (a failed write is logged and
\* the success reply is sent all the same); the rest as claimed.
C23_BanInEffectBeforeReply ==
    [][BanOfRegistered =>
          /\ banned_users' = banned_users \cup {last'.arg[1]}
          /\ (last'.write = "ok" =>
                 \E list \in Lists(banned_users') : bannedFile'.text = DumpBanned(list))
          /\ BanReplies]_vars

\* a ban of user 42 whose notice could not be delivered
C23_Witness ==
    /\ last.op = "ban"
    /\ last.id = ADMIN_ID
    /\ last.arg = <<42>>
    /\ last.write = "ok"
    /\ 42 \in banned_users
    /\ 42 \in load_banned_users(bannedFile, TRUE)
    /\ Len(sent) = 2
    /\ sent[2].kind = "ban_notice" /\ sent[2].raised

----------------------------------------------------------------------------
(* The handlers of main.py under the dispatch the bot is built with.       *)
(* bot = telebot.TeleBot(TOKEN) (line 40) leaves threaded at its default,  *)
(* True: infinity_polling hands every update's handler to a pool of        *)
(* worker threads and goes on to the next update without waiting for it;   *)
(* nothing in main.py takes a lock. A handler is here a sequence of steps, *)
(* and the steps of the handlers running in different workers interleave.  *)

\* the updates that arrive
PoolStarts == {42, 43}

\* the pool takes an update: a worker that is free starts its handler.
\* /start reaches add_user at once (line 265)
DispatchStart(w, user_id) ==
    /\ threads[w] = Idle
    /\ threads' = [threads EXCEPT ![w] = [pc |-> "add_user", id |-> user_id]]
    /\ last' = [op |-> "dispatch", id |-> user_id, arg |-> <<"/start">>,
                ret |-> "None", write |-> "none"]
    /\ sent' = <<>>
    /\ UNCHANGED <<now, solved_users, all_users, keyboards>>
    /\ StoreUnchanged

\* add_user, lines 189-209: the record is stored in the dict
AddUserStore(w) ==
    /\ threads[w].pc = "add_user"
    /\ users' = Put(users, str(threads[w].id),
                    UserRecord(users, threads[w].id, "ana", "Ana", None, now))
    /\ threads' = [threads EXCEPT ![w].pc = "save_database"]
    /\ last' = [op |-> "add_user", id |-> threads[w].id, arg |-> <<>>,
                ret |-> "None", write |-> "none"]
    /\ sent' = <<>>
    /\ UNCHANGED <<now, banned_users, groups, usersFile, bannedFile, groupsFile,
                   written, faults, solved_users, all_users, keyboards>>

\* add_user, line 211, and the rest of handle_start: the dict as it is by
\* now is written to the file, the greeting is sent, the worker is free
AddUserSave(w) ==
    /\ threads[w].pc = "save_database"
    /\ save_database(users, "ok", 0)
    /\ threads' = [threads EXCEPT ![w] = Idle]
    /\ last' = [op |-> "start", id |-> threads[w].id, arg |-> <<>>,
                ret |-> "done", write |-> "ok"]
    /\ sent' = <<Reply(threads[w].id, "greeting")>>
    /\ UNCHANGED <<now, users, banned_users, groups, bannedFile, groupsFile,
                   solved_users, all_users, keyboards>>

\* the admin's /broadcast with a text (lines 325-333): the recipients are
\* the users of this moment, the starting reply is sent
DispatchBroadcast(w) ==
    /\ threads[w] = Idle
    /\ threads' = [threads EXCEPT ![w] =
                       [pc |-> "deliver", id |-> ADMIN_ID,
                        recipients |-> get_all_users(users), done |-> 0]]
    /\ last' = [op |-> "dispatch", id |-> ADMIN_ID, arg |-> <<"/broadcast">>,
                ret |-> "None", write |-> "none"]
    /\ sent' = <<Reply(ADMIN_ID, "starting")>>
    /\ UNCHANGED <<now, solved_users, all_users, keyboards>>
    /\ StoreUnchanged

\* one turn of the loop of lines 334-344
BroadcastDeliver(w) ==
    /\ threads[w].pc = "deliver"
    /\ threads[w].done < Len(threads[w].recipients)
    /\ \E raised \in BOOLEAN :
           sent' = <<Send(threads[w].recipients[threads[w].done + 1].key,
                          "broadcast", raised)>>
    /\ threads' = [threads EXCEPT ![w].done = @ + 1]
    /\ last' = [op |-> "deliver", id |-> ADMIN_ID, arg |-> <<>>,
                ret |-> "None", write |-> "none"]
    /\ UNCHANGED <<now, solved_users, all_users, keyboards>>
    /\ StoreUnchanged

\* the loop is over: the summary of lines 346-352, the worker is free
BroadcastSummary(w) ==
    /\ threads[w].pc = "deliver"
    /\ threads[w].done = Len(threads[w].recipients)
    /\ sent' = <<Reply(ADMIN_ID, "summary")>>
    /\ threads' = [threads EXCEPT ![w] = Idle]
    /\ last' = [op |-> "broadcast", id |-> ADMIN_ID, arg |-> <<>>,
                ret |-> "done", write |-> "none"]
    /\ UNCHANGED <<now, solved_users, all_users, keyboards>>
    /\ StoreUnchanged

NextPool ==
    \/ \E w \in Workers, user_id \in PoolStarts : DispatchStart(w, user_id)
    \/ \E w \in Workers : AddUserStore(w)
    \/ \E w \in Workers : AddUserSave(w)
    \/ \E w \in Workers : DispatchBroadcast(w)
    \/ \E w \in Workers : BroadcastDeliver(w)
    \/ \E w \in Workers : BroadcastSummary(w)

SpecPool == Init /\ [][NextPool]_vars

\* the workers that are inside a registry mutation, and inside the loop of
\* a broadcast
Mutating == {w \in Workers : threads[w].pc \in {"add_user", "save_database"}}

Delivering == {w \in Workers : threads[w].pc = "deliver"}

\* C24: handlers never overlap: at most one handler has started and not run
\* to completion, so two registry mutations are never in progress at once
\* and a broadcast loop is never interleaved with a registry mutation.
C24_HandlersNeverOverlap ==
    /\ Cardinality({w \in Workers : threads[w] # Idle}) <= 1
    /\ Cardinality(Mutating) <= 1
    /\ ~(Mutating # {} /\ Delivering # {})

----------------------------------------------------------------------------
(* What a ban keeps the banned user from *)

\* C25: once a user is banned, the bot no longer acts on that user's
\* commands: a /start of a user in the banned set neither updates the
\* registry nor sends the greeting.
C25_BannedUserNotServed ==
    [][(last'.op = "start" /\ is_banned(banned_users, last'.id)) =>
          /\ users' = users
          /\ usersFile' = usersFile
          /\ \A i \in 1..Len(sent') : sent'[i].kind # "greeting"]_vars

----------------------------------------------------------------------------
(* The join-request handler of autoaccept.py: approval, welcomes, notices *)

Welcomes == {"welcome", "group_welcome"}

\* C26: every join request handled leads to an approve_chat_join_request
\* call for its chat and user, made before anything else is sent; a welcome,
\* private or in the group, is sent only after an approve call that did not
\* raise, and none at all when the approve call raised.
C26_WelcomeOnlyAfterApproval ==
    last.op = "join_request" =>
        /\ Len(sent) >= 1
        /\ sent[1].kind = "approve"
        /\ sent[1].to = last.arg[1]
        /\ sent[1].user = last.id
        /\ \A i \in 2..Len(sent) : sent[i].kind # "approve"
        /\ \A i \in 1..Len(sent) : sent[i].kind \in Welcomes => i > 1 /\ ~sent[1].raised

\* a request approved whose private welcome raised and whose group welcome
\* went out
C26_Witness ==
    /\ last.op = "join_request"
    /\ Len(sent) = 4
    /\ sent[1].kind = "approve" /\ ~sent[1].raised
    /\ sent[2].kind = "welcome" /\ sent[2].raised
    /\ sent[3].kind = "group_welcome" /\ ~sent[3].raised

AdminNotices == {"join_approved", "join_error"}

\* C28: per join request handled exactly one notification to the admin is
\* attempted: the success notice when the approve call did not raise,
\* whatever became of the welcomes, and the error notice when it raised; it
\* is the last call of the handler, which returns whether or not it raised.
C28_OneAdminNotice ==
    last.op = "join_request" =>
        /\ Cardinality({i \in 1..Len(sent) : sent[i].to = ADMIN_ID}) = 1
        /\ sent[Len(sent)].to = ADMIN_ID
        /\ sent[Len(sent)].kind \in AdminNotices
        /\ sent[Len(sent)].kind = "join_approved" <=>
               \E i \in 1..Len(sent) : sent[i].kind = "approve" /\ ~sent[i].raised

\* a request approved, both welcomes failed, and the success notice to the
\* admin could not be delivered either
C28_Witness ==
    /\ last.op = "join_request"
    /\ Len(sent) = 4
    /\ ~sent[1].raised
    /\ sent[2].raised /\ sent[3].raised
    /\ sent[4].kind = "join_approved" /\ sent[4].raised

----------------------------------------------------------------------------
(* /share with a button text of more than one word *)

\* the words of the button text of the usage example of lines 454-457:
\* /share 'Bashkohu në Kanalin Tonë' https://t.me/albkings
Bashkohu == <<"'", "B", "a", "s", "h", "k", "o", "h", "u">>
Kanalin == <<"K", "a", "n", "a", "l", "i", "n">>
Tone == <<"T", "o", "n", "ë", "'">>

\* the texts of the /share messages received, the usage example among them
ShareExamples ==
    ShareTexts \cup {<<"/share", Bashkohu, <<"n", "ë">>, Kanalin, Tone, Https>>}

NextShare ==
    \/ \E user_id \in UserIds : handle_start(user_id, <<"ana", "Ana", None>>, now, "ok")
    \/ \E words \in ShareExamples : handle_share(ADMIN_ID, words)

SpecShare == Init /\ [][NextShare]_vars

\* C27: a /share of the admin made of a button text, of one word or more,
\* and then a url that begins with one of the three prefixes gets neither
\* the usage reply nor the validation reply: the button carries that url and
\* that text, and is sent to every registered user.
C27_ShareTakesButtonTextOfManyWords ==
    [][(/\ last'.op = "share"
        /\ last'.id = ADMIN_ID
        /\ Len(last'.arg) >= 3
        /\ ~NoKnownPrefix(last'.arg[Len(last'.arg)]))
       => /\ last'.ret = "done"
          /\ Len(sent') = Len(users) + 2
          /\ sent'[1].kind = "sharing"
          /\ sent'[1].url = <<last'.arg[Len(last'.arg)]>>
          /\ \A i \in 1..Len(users) :
                 sent'[i + 1].kind = "share" /\ sent'[i + 1].to = int(users[i].key)]_vars

----------------------------------------------------------------------------
(* The CAPTCHA bot (src/Hellobro8.py) *)

\* challenges (lines 12-28): the question, its three options, and the
\* 0-based index of the right one
challenges ==
    <<[question |-> "BruteForce",
       options |-> <<"Change 'Denied' to 'Granted'", "Use while instead of for",
                     "Add hash(password)">>,
       correct |-> 0],
      [question |-> "DDoS",
       options |-> <<"Add sleep", "Use threading", "Limit requests">>,
       correct |-> 2],
      [question |-> "XSS",
       options |-> <<"Use innerHTML", "Escape input", "Add alert()">>,
       correct |-> 1]>>

\* challenges.index(challenge): the 0-based place of the first equal item
index(list, item) ==
    (CHOOSE i \in 1..Len(list) :
         list[i] = item /\ \A j \in 1..(i - 1) : list[j] # item) - 1

\* str(n) and int(s) for the one-digit numbers of the callback data, texts
\* being sequences of characters
digit_str(n) == <<ToString(n)>>

digit_int(s) == CHOOSE n \in 0..9 : digit_str(n) = s

\* the callback data of the button of send_welcome (line 34)
StartCaptcha == <<"s", "t", "a", "r", "t", "_", "c", "a", "p", "t", "c", "h", "a">>

AnswerPrefix == <<"a", "n", "s", "w", "e", "r", "_">>

\* f"answer_{i}_{ch_index}" (line 47)
AnswerData(i, ch_index) == AnswerPrefix \o digit_str(i) \o <<"_">> \o digit_str(ch_index)

\* s.split(sep) (line 51)
RECURSIVE str_split(_, _)
str_split(s, sep) ==
    IF \E i \in 1..Len(s) : s[i] = sep
    THEN LET i == CHOOSE k \in 1..Len(s) : s[k] = sep /\ \A j \in 1..(k - 1) : s[j] # sep
         IN <<SubSeq(s, 1, i - 1)>> \o str_split(SubSeq(s, i + 1, Len(s)), sep)
    ELSE <<s>>

\* lines 51-54 of handle_answer: the option chosen and the challenge named
selected(data) == digit_int(str_split(data, "_")[2])

ch_index(data) == digit_int(str_split(data, "_")[3])

CaptchaCalled(op, chat_id, data, ret) ==
    /\ last' = [op |-> op, id |-> chat_id, arg |-> data, ret |-> ret, write |-> "none"]
    /\ UNCHANGED <<now, threads>>
    /\ StoreUnchanged

\* send_welcome (lines 30-35)
send_welcome(chat_id) ==
    /\ all_users' = all_users \cup {chat_id}
    /\ sent' = <<[to |-> chat_id, kind |-> "captcha_welcome", raised |-> FALSE,
                  buttons |-> <<StartCaptcha>>]>>
    /\ keyboards' = [keyboards EXCEPT ![chat_id] = @ \cup {StartCaptcha}]
    /\ CaptchaCalled("start", chat_id, <<>>, "done")
    /\ UNCHANGED solved_users

\* the buttons of a challenge (lines 45-47), in the order of its options
Buttons(challenge) ==
    [i \in 1..Len(challenge.options) |-> AnswerData(i - 1, index(challenges, challenge))]

\* send_challenge without the test of line 39: whoever asks is shown the
\* challenge again
send_challenge_again(chat_id) ==
    /\ StartCaptcha \in keyboards[chat_id]
    /\ LET challenge == challenges[(chat_id % Len(challenges)) + 1]
       IN /\ sent' = <<[to |-> chat_id, kind |-> "challenge", raised |-> FALSE,
                        question |-> challenge.question,
                        buttons |-> Buttons(challenge)]>>
          /\ keyboards' = [keyboards EXCEPT ![chat_id] =
                               @ \cup {Buttons(challenge)[i] : i \in 1..Len(challenge.options)}]
          /\ CaptchaCalled("start_captcha", chat_id, StartCaptcha, "challenge")
    /\ UNCHANGED <<solved_users, all_users>>

\* send_challenge (lines 37-47), the handler of the callback 'start_captcha';
\* the button pressed is one the bot has sent into the chat
send_challenge(chat_id) ==
    /\ StartCaptcha \in keyboards[chat_id]
    /\ IF chat_id \in solved_users
       THEN /\ sent' = <<Reply(chat_id, "already_solved")>>
            /\ CaptchaCalled("start_captcha", chat_id, StartCaptcha, "already_solved")
            /\ UNCHANGED keyboards
       ELSE LET challenge == challenges[(chat_id % Len(challenges)) + 1]
            IN /\ sent' = <<[to |-> chat_id, kind |-> "challenge", raised |-> FALSE,
                             question |-> challenge.question,
                             buttons |-> Buttons(challenge)]>>
               /\ keyboards' = [keyboards EXCEPT ![chat_id] =
                                    @ \cup {Buttons(challenge)[i] :
                                               i \in 1..Len(challenge.options)}]
               /\ CaptchaCalled("start_captcha", chat_id, StartCaptcha, "challenge")
    /\ UNCHANGED <<solved_users, all_users>>

\* handle_answer that lets everyone in: whatever the answer, the chat is
\* marked as solved and given the link
handle_answer_lenient(chat_id, data) ==
    /\ data \in keyboards[chat_id]
    /\ startswith(data, AnswerPrefix)
    /\ solved_users' = solved_users \cup {chat_id}
    /\ sent' = <<Reply(chat_id, "group_link")>>
    /\ CaptchaCalled("answer", chat_id, data, "correct")
    /\ UNCHANGED <<all_users, keyboards>>

\* handle_answer (lines 49-61), the handler of the callbacks 'answer_...';
\* the button pressed is one the bot has sent into the chat
handle_answer(chat_id, data) ==
    /\ data \in keyboards[chat_id]
    /\ startswith(data, AnswerPrefix)
    /\ LET challenge == challenges[ch_index(data) + 1]
       IN IF selected(data) = challenge.correct
          THEN /\ solved_users' = solved_users \cup {chat_id}
               /\ sent' = <<Reply(chat_id, "group_link")>>
               /\ CaptchaCalled("answer", chat_id, data, "correct")
          ELSE /\ sent' = <<Reply(chat_id, "wrong_answer")>>
               /\ CaptchaCalled("answer", chat_id, data, "wrong")
               /\ UNCHANGED solved_users
    /\ UNCHANGED <<all_users, keyboards>>

\* every callback data a challenge button can carry
AnswerDatas == {AnswerData(i, k) : i \in 0..2, k \in 0..(Len(challenges) - 1)}

NextCaptcha ==
    \/ \E chat_id \in CaptchaChats : send_welcome(chat_id)
    \/ \E chat_id \in CaptchaChats : send_challenge(chat_id)
    \/ \E chat_id \in CaptchaChats, data \in AnswerDatas : handle_answer(chat_id, data)

SpecCaptcha == Init /\ [][NextCaptcha]_vars

\* the answer a callback carries is the right one for the challenge that
\* send_challenge shows in the chat
RightAnswer(chat_id, data) ==
    /\ Len(data) = Len(AnswerPrefix) + 3
    /\ data[Len(AnswerPrefix) + 1] =
           digit_str(challenges[(chat_id % Len(challenges)) + 1].correct)[1]

\* C29: the group link is sent only in answer to a callback that carries the
\* right answer; a chat id enters solved_users only then; and the challenge a
\* callback names is the one send_challenge shows in that chat, the one at
\* index chat id modulo the number of challenges.
C29_LinkOnlyOnCorrectAnswer ==
    [][/\ (\E i \in 1..Len(sent') : sent'[i].kind = "group_link") =>
              last'.op = "answer" /\ RightAnswer(last'.id, last'.arg)
       /\ solved_users' # solved_users =>
              /\ last'.op = "answer"
              /\ RightAnswer(last'.id, last'.arg)
              /\ solved_users' = solved_users \cup {last'.id}
       /\ last'.op = "answer" =>
              /\ ch_index(last'.arg) = last'.id % Len(challenges)
              /\ \E i \in 1..3 :
                     last'.arg = Buttons(challenges[(last'.id % Len(challenges)) + 1])[i]
      ]_vars

\* chat 43 has pressed 'Limit requests' under the DDoS challenge
C29_Witness ==
    /\ last.op = "answer"
    /\ last.id = 43
    /\ last.arg = AnswerData(2, 1)
    /\ 43 \in solved_users
    /\ sent = <<Reply(43, "group_link")>>

\* C30: solved_users only grows; a 'start_captcha' callback from a chat that
\* is in solved_users gets the already-solved reply and no challenge; and a
\* wrong answer leaves solved_users as it was.
C30_SolvedStaysSolved ==
    [][/\ solved_users \subseteq solved_users'
       /\ (last'.op = "start_captcha" /\ last'.id \in solved_users) =>
              /\ sent' = <<Reply(last'.id, "already_solved")>>
              /\ keyboards' = keyboards
       /\ (last'.op = "answer" /\ ~RightAnswer(last'.id, last'.arg)) =>
              solved_users' = solved_users
      ]_vars

\* chat 42 has solved its challenge and asks for one again
C30_Witness ==
    /\ last.op = "start_captcha"
    /\ last.id = 42
    /\ 42 \in solved_users
    /\ sent = <<Reply(42, "already_solved")>>

====
